---------------------------- MODULE Spec2Model ----------------------------
(***************************************************************************)
(* ui.js: Custom Elements behind a function interface.                     *)
(*                                                                         *)
(* The module keeps one WeakMap, instances, from element to the value its  *)
(* create function returned.  ui(tag, create) defines a custom element     *)
(* class for tag unless customElements already has one, and returns        *)
(* make_element.  make_element(params) creates an element, calls           *)
(* create(element, params) and stores the result under the element.  The   *)
(* class's connectedCallback / disconnectedCallback look the element up    *)
(* and call connect / disconnect when that is a function.                  *)
(*                                                                         *)
(* create is application code.  It runs inside make_element, between       *)
(* document.createElement and instances.set, and may itself use the DOM    *)
(* and this library; the model keeps a stack of the make_element calls     *)
(* whose create has not returned yet.                                      *)
(***************************************************************************)
EXTENDS Integers, Sequences, FiniteSets, TLC

\* Bounds of the model: elements created, make_element calls in progress,
\* and entries of elements into a document.
MaxElems == 2
MaxDepth == 2
MaxAttaches == 3

\* Custom element names.
Tags == {"x-a"}

\* Values passed to make_element.
Params == {"p1", "p2"}

\* create functions.  "counter" is the x-counter initializer: it touches
\* nothing and returns {connect: () => counter += 1}.  "generic" is arbitrary
\* application code: it may use the DOM and this library before it returns
\* any value or throws.
Creates == {"counter", "generic"}
GenericCreates == {"generic"}

\* "blink" is the create function of blink.js: it touches no document and
\* returns {connect, disconnect}, where connect starts an interval timer and
\* disconnect clears it; it gives the element a change_interval method.
BlinkCreates == {"blink"}

\* "thrower" is a create function that touches nothing and returns
\* {connect, disconnect}, two functions that throw whenever they are called.
ThrowCreates == {"thrower"}

VARIABLES
    registry,   \* customElements: tag -> "none" | "ui" | "foreign"
    makes,      \* the make_element closures returned by ui: [tag, create]
    elems,      \* the elements created so far: [tag, maker]
    attached,   \* element.isConnected
    instances,  \* the WeakMap: element -> value returned by create
    stack,      \* make_element calls whose create is running
    counts,     \* per element: transitions seen, callbacks invoked
    counter,    \* the variable the x-counter initializer closes over
    defined,    \* tag -> calls of customElements.define made by ui
    timers,     \* per element: the interval and timer of its blink closure
    life,       \* per element: "held" by the application, "dropped" by
                \* it, or "discarded" by the garbage collector
    last        \* the last operation: what it returned, the error it raised

vars == <<registry, makes, elems, attached, instances, stack, counts,
          counter, defined, timers, life, last>>

---------------------------------------------------------------------------
\* JavaScript values

\* undefined, as the value of an expression.
Undefined ==
    [type |-> "undefined", id |-> 0, owner |-> "none",
     connect |-> "absent", disconnect |-> "absent"]

\* The object a create function returns for element e.
Handle(e, owner, c, d) ==
    [type |-> "object", id |-> e, owner |-> owner,
     connect |-> c, disconnect |-> d]

\* Property shapes a generic create may return: connect and disconnect are
\* each a function ("fn"), missing ("absent") or some other value ("nonfn").
ReturnShapes ==
    { <<"fn", "fn">>, <<"absent", "fn">>, <<"nonfn", "nonfn">> }

\* WeakMap.prototype.get
WeakMapGet(map, key) ==
    IF key \in DOMAIN map THEN map[key] ELSE Undefined

\* A set that files every value under the first element made.
WeakMapSetFirst(map, key, value) ==
    [k \in DOMAIN map \cup {1} |-> IF k = 1 THEN value ELSE map[k]]

\* A set that drops every other entry.
WeakMapSetOnly(map, key, value) == [k \in {key} |-> value]

\* WeakMap.prototype.set
WeakMapSet(map, key, value) ==
    [k \in DOMAIN map \cup {key} |-> IF k = key THEN value ELSE map[k]]

\* A Map in place of the WeakMap: an entry holds its key strongly.
MapKeepsAlive(map, key) == key \in DOMAIN map

\* Whether the entries of the WeakMap keep the object key reachable: keys are
\* held weakly, and a value is held only as long as its key is reachable.
KeepsAlive(map, key) == FALSE

\* The WeakMap after the garbage collector has reclaimed the object key.
WeakMapCollect(map, key) == [k \in DOMAIN map \ {key} |-> map[k]]

\* value?.name
OptionalChain(value, name) ==
    IF value.type = "undefined" THEN "absent" ELSE value[name]

\* A test for "not undefined" in place of the typeof test.
IsDefined(x) == x # "absent"

\* typeof x === "function": "fn" is a function that returns, "throws" one
\* that throws.
IsFunction(x) == x \in {"fn", "throws"}

NoCalls == << >>

---------------------------------------------------------------------------
\* The host platform

\* A registration that is attempted whatever customElements holds.
NotDefinedUnchecked(tag) == TRUE

\* customElements.get(tag) === undefined
NotDefined(tag) == registry[tag] = "none"

\* customElements.define(tag, cls): the error it raises, or "none".
PlatformDefineError(tag) ==
    IF registry[tag] # "none" THEN "NotSupportedError" ELSE "none"

\* document.createElement(tag): the new element.
NewElement == Len(elems) + 1

\* The class of element e: the one customElements holds for its tag.
ClassOf(e) == registry[elems[e].tag]

ZeroCounts == [init |-> 0, att |-> 0, det |-> 0, con |-> 0, dis |-> 0]

\* The variables of a blink closure: interval, the number of interval timers
\* it started that are still running, and whether timer names a running one.
NoTimer == [interval |-> "none", active |-> 0, live |-> FALSE]

\* Code runs at top level, or inside a create that is application code.
Top == stack[Len(stack)]
CanAct == IF stack = << >> THEN TRUE ELSE Top.create \in GenericCreates

\* The entries of elements into a document so far.
RECURSIVE Attaches(_, _)
Attaches(cs, n) == IF n = 0 THEN 0 ELSE cs[n].att + Attaches(cs, n - 1)

\* What an operation left behind: op names it, made is the element that
\* make_element returned, make the closure that ui returned, error the
\* exception that left it.
NoMake == [tag |-> "none", create |-> "none"]
Outcome(op, made, make, error) ==
    [op |-> op, made |-> made, make |-> make, error |-> error]

---------------------------------------------------------------------------
Init ==
    /\ registry = [t \in Tags |-> "none"]
    /\ makes = {}
    /\ elems = << >>
    /\ attached = << >>
    /\ instances = << >>
    /\ stack = << >>
    /\ counts = << >>
    /\ counter = 0
    /\ defined = [t \in Tags |-> 0]
    /\ timers = << >>
    /\ life = << >>
    /\ last = Outcome("init", 0, NoMake, "none")

---------------------------------------------------------------------------
\* The lifecycle callbacks of the class that ui defines

\* A call inside try/catch: what the function throws is swallowed.
CallCaught(handle, fn) ==
    IF IsFunction(handle[fn])
    THEN [calls |-> << [handle |-> handle, fn |-> fn, args |-> << >>] >>,
          error |-> "none"]
    ELSE [calls |-> NoCalls, error |-> "none"]

\* Calling value as a function with no arguments: what the function throws
\* leaves the call.
Call(handle, fn) ==
    IF IsFunction(handle[fn])
    THEN [calls |-> << [handle |-> handle, fn |-> fn, args |-> << >>] >>,
          error |-> IF handle[fn] = "throws" THEN "Error" ELSE "none"]
    ELSE [calls |-> NoCalls, error |-> "TypeError"]

Skip == [calls |-> NoCalls, error |-> "none"]

\* connectedCallback() of element this: what it calls, the error it raises.
ConnectedCallback(this) ==
    LET handle == WeakMapGet(instances, this)
        connect == OptionalChain(handle, "connect")
    IN  IF IsFunction(connect) THEN Call(handle, "connect") ELSE Skip

\* disconnectedCallback() of element this.
DisconnectedCallback(this) ==
    LET handle == WeakMapGet(instances, this)
        disconnect == OptionalChain(handle, "disconnect")
    IN  IF IsFunction(disconnect) THEN Call(handle, "disconnect") ELSE Skip

\* The effect of the calls a callback made: each call is counted against the
\* element its handle was returned for, and the connect of an x-counter
\* handle adds one to the counter it closes over.
Called(calls, id, fn) ==
    Cardinality({i \in DOMAIN calls :
                    calls[i].handle.id = id /\ calls[i].fn = fn})

CountsAfter(cs, calls) ==
    [e \in DOMAIN cs |->
        [cs[e] EXCEPT !.con = @ + Called(calls, e, "connect"),
                      !.dis = @ + Called(calls, e, "disconnect")]]

\* blink.js connect: timer = setInterval(toggle_visibility, interval)
BlinkConnect(t) == [t EXCEPT !.active = @ + 1, !.live = TRUE]

\* blink.js disconnect: clearInterval(timer)
BlinkDisconnect(t) ==
    IF t.live THEN [t EXCEPT !.active = @ - 1, !.live = FALSE] ELSE t

\* The effect on the blink closures of the calls a callback made.
TimersAfter(ts, calls) ==
    [e \in DOMAIN ts |->
        IF \E i \in DOMAIN calls :
                calls[i].handle.id = e /\ calls[i].handle.owner = "blink"
        THEN IF calls[1].fn = "connect" THEN BlinkConnect(ts[e])
             ELSE BlinkDisconnect(ts[e])
        ELSE ts[e]]

CounterAfter(c, calls) ==
    c + Cardinality({i \in DOMAIN calls :
                        /\ calls[i].handle.owner = "counter"
                        /\ calls[i].fn = "connect"})

---------------------------------------------------------------------------
\* Operations

\* ui(tag, create)
Define(tag, create) ==
    /\ CanAct
    /\ LET make == [tag |-> tag, create |-> create]
           err == IF NotDefined(tag) THEN PlatformDefineError(tag)
                  ELSE "none"
       IN  /\ defined' = [defined EXCEPT
                    ![tag] = IF NotDefined(tag) THEN @ + 1 ELSE @]
           /\ IF err = "none"
              THEN /\ registry' = [registry EXCEPT
                        ![tag] = IF NotDefined(tag) THEN "ui" ELSE @]
                   /\ makes' = makes \cup {make}
                   /\ last' = Outcome("ui", 0, make, "none")
              ELSE /\ UNCHANGED <<registry, makes>>
                   /\ last' = Outcome("ui", 0, NoMake, err)
    /\ UNCHANGED <<elems, attached, instances, stack, counts, counter,
                   timers,
                   life>>

\* Code outside this library defines a custom element for tag.
DefineForeign(tag) ==
    /\ CanAct
    /\ registry[tag] = "none"
    /\ registry' = [registry EXCEPT ![tag] = "foreign"]
    /\ last' = Outcome("foreign", 0, NoMake, "none")
    /\ UNCHANGED <<makes, elems, attached, instances, stack, counts, counter,
                   defined, timers,
                   life>>

\* A call that leaves params out.
CreateArgsNoParams(element, params) == <<element>>

\* The arguments of the call create(element, params).
CreateArgs(element, params) == <<element, params>>

\* A create looked up by tag: the one some closure of the tag was given.
CreateOfTag(make) == (CHOOSE m \in makes : m.tag = make.tag).create

\* The create that make_element calls: the one its own ui call was given.
CreateOf(make) == make.create

\* make_element(params), up to the call of create(element, params).
MakeElement(make, params) ==
    /\ CanAct
    /\ make \in makes
    /\ Len(elems) < MaxElems
    /\ Len(stack) < MaxDepth
    /\ LET element == NewElement IN
       /\ elems' = Append(elems, [tag |-> make.tag, maker |-> make.create])
       /\ attached' = Append(attached, FALSE)
       /\ counts' = Append(counts, [ZeroCounts EXCEPT !.init = 1])
       /\ timers' = Append(timers, NoTimer)
       /\ life' = Append(life, "held")
       /\ stack' = Append(stack, [element |-> element,
                                  tag |-> make.tag,
                                  create |-> CreateOf(make),
                                  params |-> params,
                                  args |-> CreateArgs(element, params),
                                  pre |-> Len(elems),
                                  instances |-> instances,
                                  registry |-> registry])
       /\ last' = Outcome("make", 0, NoMake, "none")
    /\ UNCHANGED <<registry, makes, instances, counter, defined>>

\* The values create may return for element e.
Returns(create, e) ==
    IF create = "counter"
    THEN {Handle(e, "counter", "fn", "absent")}
    ELSE IF create \in BlinkCreates
    THEN {Handle(e, create, "fn", "fn")}
    ELSE IF create \in ThrowCreates
    THEN {Handle(e, create, "throws", "throws")}
    ELSE {Undefined} \cup
         {Handle(e, create, s[1], s[2]) : s \in ReturnShapes}

\* An element variable shared by all calls: it names the newest element.
ElementOfLatest(frame) == Len(elems)

\* const element of a make_element call: each call has its own.
ElementOf(frame) == frame.element

\* create returns value: make_element stores it and returns the element.
CreateReturn(value) ==
    /\ stack # << >>
    /\ value \in Returns(Top.create, Top.element)
    /\ instances' = WeakMapSet(instances, ElementOf(Top), value)
    /\ stack' = SubSeq(stack, 1, Len(stack) - 1)
    /\ timers' = [timers EXCEPT ![Top.element].interval =
                        IF Top.create \in BlinkCreates THEN Top.params ELSE @]
    /\ last' = Outcome("return", Top.element, NoMake, "none")
    /\ UNCHANGED <<registry, makes, elems, attached, counts, counter,
                   defined,
                   life>>

\* A make_element that catches what create throws, stores undefined and
\* returns the element.
CreateThrowCaught ==
    /\ stack # << >>
    /\ Top.create \in GenericCreates
    /\ instances' = WeakMapSet(instances, Top.element, Undefined)
    /\ stack' = SubSeq(stack, 1, Len(stack) - 1)
    /\ last' = Outcome("throw", Top.element, NoMake, "none")
    /\ UNCHANGED <<registry, makes, elems, attached, counts, counter,
                   defined, timers,
                   life>>

\* create throws: the exception leaves make_element.
CreateThrow ==
    /\ stack # << >>
    /\ Top.create \in GenericCreates
    /\ stack' = SubSeq(stack, 1, Len(stack) - 1)
    /\ last' = Outcome("throw", 0, NoMake, "Error")
    /\ UNCHANGED <<registry, makes, elems, attached, instances, counts,
                   counter, defined, timers,
                   life>>

\* document.createElement(tag) by code other than make_element.
CreateOutside(tag) ==
    /\ CanAct
    /\ registry[tag] # "none"
    /\ Len(elems) < MaxElems
    /\ elems' = Append(elems, [tag |-> tag, maker |-> "outside"])
    /\ attached' = Append(attached, FALSE)
    /\ counts' = Append(counts, ZeroCounts)
    /\ timers' = Append(timers, NoTimer)
    /\ life' = Append(life, "held")
    /\ last' = Outcome("create", 0, NoMake, "none")
    /\ UNCHANGED <<registry, makes, instances, stack, counter, defined>>

\* The platform runs the lifecycle callbacks of the class ui defined; an
\* element of a class defined elsewhere runs that class's own.
Dispatch(e, outcome) == IF ClassOf(e) = "ui" THEN outcome ELSE Skip

\* Element e enters a document: the platform calls connectedCallback.
Attach(e) ==
    /\ CanAct
    /\ life[e] = "held"
    /\ ~attached[e]
    /\ Attaches(counts, Len(counts)) < MaxAttaches
    /\ attached' = [attached EXCEPT ![e] = TRUE]
    /\ LET out == Dispatch(e, ConnectedCallback(e)) IN
       /\ counts' = CountsAfter([counts EXCEPT ![e].att = @ + 1], out.calls)
       /\ counter' = CounterAfter(counter, out.calls)
       /\ timers' = TimersAfter(timers, out.calls)
       /\ last' = Outcome("attach", 0, NoMake, out.error)
    /\ UNCHANGED <<registry, makes, elems, instances, stack, defined,
                   life>>

\* Element e leaves its document: the platform calls disconnectedCallback.
Detach(e) ==
    /\ CanAct
    /\ attached[e]
    /\ attached' = [attached EXCEPT ![e] = FALSE]
    /\ LET out == Dispatch(e, DisconnectedCallback(e)) IN
       /\ counts' = CountsAfter([counts EXCEPT ![e].det = @ + 1], out.calls)
       /\ counter' = CounterAfter(counter, out.calls)
       /\ timers' = TimersAfter(timers, out.calls)
       /\ last' = Outcome("detach", 0, NoMake, out.error)
    /\ UNCHANGED <<registry, makes, elems, instances, stack, defined,
                   life>>

\* blink.js change_interval(new_interval), a method of the element that
\* create of blink.js was run for.
ChangeInterval(e, new_interval) ==
    /\ CanAct
    /\ elems[e].maker \in BlinkCreates
    /\ life[e] = "held"
    /\ e \in DOMAIN instances
    /\ timers' = [timers EXCEPT ![e] =
            IF attached[e]
            THEN BlinkConnect(BlinkDisconnect(
                    [@ EXCEPT !.interval = new_interval]))
            ELSE [@ EXCEPT !.interval = new_interval]]
    /\ last' = Outcome("change", 0, NoMake, "none")
    /\ UNCHANGED <<registry, makes, elems, attached, instances, stack, counts,
                   counter, defined,
                   life>>

\* The application drops every reference it holds to element e and to the
\* handle create returned for it.
Release(e) ==
    /\ CanAct
    /\ life[e] = "held"
    /\ life' = [life EXCEPT ![e] = "dropped"]
    /\ last' = Outcome("release", 0, NoMake, "none")
    /\ UNCHANGED <<registry, makes, elems, attached, instances, stack, counts,
                   counter, defined, timers>>

\* The application finds element e again through the document it is in.
Regain(e) ==
    /\ CanAct
    /\ life[e] = "dropped"
    /\ attached[e]
    /\ life' = [life EXCEPT ![e] = "held"]
    /\ last' = Outcome("regain", 0, NoMake, "none")
    /\ UNCHANGED <<registry, makes, elems, attached, instances, stack, counts,
                   counter, defined, timers>>

\* Element e is the local variable of a make_element call in progress.
InProgress(e) == \E i \in DOMAIN stack : stack[i].element = e

\* Nothing reaches element e: not the application, not a document, not a
\* call in progress, not the WeakMap.
Unreachable(e) ==
    /\ life[e] = "dropped"
    /\ ~attached[e]
    /\ ~InProgress(e)
    /\ ~KeepsAlive(instances, e)

\* The garbage collector reclaims element e, and with it the entry of e.
Discard(e) ==
    /\ Unreachable(e)
    /\ life' = [life EXCEPT ![e] = "discarded"]
    /\ instances' = WeakMapCollect(instances, e)
    /\ UNCHANGED <<registry, makes, elems, attached, stack, counts, counter,
                   defined, timers, last>>

Next ==
    \/ \E tag \in Tags, create \in Creates : Define(tag, create)
    \/ \E tag \in Tags : DefineForeign(tag)
    \/ \E make \in makes, params \in Params : MakeElement(make, params)
    \/ \E value \in UNION {Returns(c, e) : c \in Creates,
                                           e \in 1..Len(elems)} :
            CreateReturn(value)
    \/ CreateThrow
    \/ \E tag \in Tags : CreateOutside(tag)
    \/ \E e \in 1..Len(elems) : Attach(e)
    \/ \E e \in 1..Len(elems) : Detach(e)

Spec == Init /\ [][Next]_vars

\* The application of blink.js: blink elements are made, put into and taken
\* out of documents, and have their interval changed.
NextBlink ==
    \/ \E tag \in Tags, create \in BlinkCreates : Define(tag, create)
    \/ \E tag \in Tags : DefineForeign(tag)
    \/ \E make \in makes, params \in Params : MakeElement(make, params)
    \/ \E value \in UNION {Returns(c, e) : c \in BlinkCreates,
                                           e \in 1..Len(elems)} :
            CreateReturn(value)
    \/ \E e \in 1..Len(elems) : Attach(e)
    \/ \E e \in 1..Len(elems) : Detach(e)
    \/ \E e \in 1..Len(elems), i \in Params : ChangeInterval(e, i)

SpecBlink == Init /\ [][NextBlink]_vars

\* An application whose handles throw from connect and disconnect.
NextThrow ==
    \/ \E tag \in Tags, create \in ThrowCreates : Define(tag, create)
    \/ \E tag \in Tags : DefineForeign(tag)
    \/ \E make \in makes, params \in Params : MakeElement(make, params)
    \/ \E value \in UNION {Returns(c, e) : c \in ThrowCreates,
                                           e \in 1..Len(elems)} :
            CreateReturn(value)
    \/ \E e \in 1..Len(elems) : Attach(e)
    \/ \E e \in 1..Len(elems) : Detach(e)

SpecThrow == Init /\ [][NextThrow]_vars

\* An application that makes x-counter elements and drops them, with the
\* garbage collector running.
GCCreates == {"counter"}

NextGC ==
    \/ \E tag \in Tags, create \in GCCreates : Define(tag, create)
    \/ \E make \in makes, params \in Params : MakeElement(make, params)
    \/ \E value \in UNION {Returns(c, e) : c \in GCCreates,
                                           e \in 1..Len(elems)} :
            CreateReturn(value)
    \/ \E e \in 1..Len(elems) : Attach(e)
    \/ \E e \in 1..Len(elems) : Detach(e)
    \/ \E e \in 1..Len(elems) : Release(e)
    \/ \E e \in 1..Len(elems) : Regain(e)
    \/ \E e \in 1..Len(elems) : Discard(e)

SpecGC == Init /\ [][NextGC]_vars

---------------------------------------------------------------------------
\* Steps and states the properties speak about

\* This step takes element e into, or out of, a document.
AttachStep(e) == counts'[e].att = counts[e].att + 1
DetachStep(e) == counts'[e].det = counts[e].det + 1

\* The step calls no connect and no disconnect, raises nothing and leaves the
\* map, the registry and the closures as they were.
Quiet ==
    /\ \A j \in DOMAIN counts :
            /\ counts'[j].con = counts[j].con
            /\ counts'[j].dis = counts[j].dis
    /\ counter' = counter
    /\ last'.error = "none"
    /\ instances' = instances
    /\ registry' = registry
    /\ makes' = makes

\* Element e has nothing to call under name: no entry, an entry holding
\* undefined, or a handle whose property name is not a function.
NothingToCall(e, name) ==
    \/ e \notin DOMAIN instances
    \/ instances[e].type = "undefined"
    \/ instances[e][name] \notin {"fn", "throws"}

\* Entries into a document of the elements the x-counter make produced.
RECURSIVE CounterAttaches(_)
CounterAttaches(n) ==
    IF n = 0 THEN 0
    ELSE (IF elems[n].maker = "counter" THEN counts[n].att ELSE 0)
         + CounterAttaches(n - 1)

---------------------------------------------------------------------------
\* C1: for every instance make returned whose create returned a handle with
\* a connect function, connect has been called exactly once for each entry
\* of the instance into a document, and at no other time.
C1_ConnectOncePerAttach ==
    \A e \in DOMAIN instances :
        IsFunction(instances[e].connect) =>
            counts[e].con = counts[e].att

\* C2: for every instance make returned whose create returned a handle with
\* a disconnect function, disconnect has been called exactly once for each
\* removal of the instance from a document, and at no other time.
C2_DisconnectOncePerDetach ==
    \A e \in DOMAIN instances :
        IsFunction(instances[e].disconnect) =>
            counts[e].dis = counts[e].det

\* C3 as stated: when make returns, create has run exactly once, with
\* (the new instance, params); the instance is new, has the tag given to
\* define, and is in no document.
C3_MakeReturnsUnattached ==
    [][last'.op = "return" =>
        LET e == last'.made IN
        /\ e \in DOMAIN elems'
        /\ counts'[e].init = 1
        /\ Top.args = <<e, Top.params>>
        /\ e \notin 1..Top.pre
        /\ elems'[e].tag = Top.tag
        /\ ~attached'[e]]_vars

\* C3 as amended: when make returns, create has run exactly once, with
\* (the new instance, params); the instance is new and has the tag given to
\* define; it is in a document only if it was put there while create ran.
C3_MakeRunsCreateOnce ==
    [][last'.op = "return" =>
        LET e == last'.made IN
        /\ e \in DOMAIN elems'
        /\ counts'[e].init = 1
        /\ Top.args = <<e, Top.params>>
        /\ e \notin 1..Top.pre
        /\ elems'[e].tag = Top.tag
        /\ attached'[e] => counts'[e].att > counts'[e].det]_vars

\* make has returned an instance that its create left in a document.
C3_Witness ==
    /\ last.op = "return"
    /\ last.made \in DOMAIN instances
    /\ attached[last.made]

C5_IdempotentRegistration ==
    /\ \A t \in Tags : defined[t] <= 1
    /\ last.error # "NotSupportedError"
    /\ last.op = "ui" =>
            /\ last.error = "none"
            /\ last.make \in makes
            /\ registry[last.make.tag] # "none"

\* ui has returned for a tag that an earlier call had bound.
C5_Witness ==
    /\ last.op = "ui"
    /\ Cardinality(makes) >= 2
    /\ defined[last.make.tag] = 1

\* C6: no lifecycle callback runs for an instance while make has not stored
\* its handle yet (its create is still running).
C6_HandleStoredBeforeCallbacks ==
    \A i \in DOMAIN stack :
        ClassOf(stack[i].element) = "ui" =>
            /\ counts[stack[i].element].att = 0
            /\ counts[stack[i].element].det = 0

\* C7: once ui has returned a make function for a tag, the tag is
\* registered as the class whose callbacks look the instance up in the map.
C7_TagDelegates ==
    \A m \in makes : registry[m.tag] = "ui"

\* C8: when an instance has no entry, an entry holding undefined, or a
\* handle without a function under connect (disconnect), its entry into
\* (removal from) a document calls nothing, raises nothing and changes
\* neither the map nor the registry.
C8_AbsentIsNoOp ==
    [][\A e \in DOMAIN counts :
        /\ (AttachStep(e) /\ NothingToCall(e, "connect")) => Quiet
        /\ (DetachStep(e) /\ NothingToCall(e, "disconnect")) => Quiet]_vars

\* An instance whose handle holds non-functions, and one that has no entry,
\* have each been in a document and out again.
C8_Witness ==
    /\ stack = << >>
    /\ \E e \in DOMAIN instances :
            /\ ClassOf(e) = "ui"
            /\ instances[e].connect = "nonfn"
            /\ counts[e].det >= 1
    /\ \E e \in DOMAIN counts :
            /\ e \notin DOMAIN instances
            /\ counts[e].att >= 1

\* C9 as stated: when create throws, the error leaves make, no instance is
\* returned, and the map and the registry are as they were before the call.
C9_ThrowRestoresState ==
    [][last'.op = "throw" =>
        /\ last'.error = "Error"
        /\ last'.made = 0
        /\ instances' = Top.instances
        /\ registry' = Top.registry]_vars

\* C9 as amended: when create throws, the error leaves make, no instance is
\* returned and no entry is added for the instance; every entry and every
\* registration present before the call is unchanged, and what is new was
\* added by calls of make and ui that create itself made.
C9_ThrowAddsNoEntry ==
    [][last'.op = "throw" =>
        /\ last'.error = "Error"
        /\ last'.made = 0
        /\ Top.element \notin DOMAIN instances'
        /\ instances' = instances
        /\ registry' = registry
        /\ \A k \in DOMAIN Top.instances :
                k \in DOMAIN instances' /\ instances'[k] = Top.instances[k]
        /\ \A k \in DOMAIN instances' \ DOMAIN Top.instances :
                k > Top.element
        /\ \A t \in Tags :
                Top.registry[t] # "none" => registry'[t] = Top.registry[t]]_vars

\* The create of the first instance threw after a make it called itself had
\* returned the second.
C9_Witness ==
    /\ last.op = "throw"
    /\ stack = << >>
    /\ Len(elems) = 2
    /\ elems[1].maker # "outside"
    /\ 1 \notin DOMAIN instances
    /\ 2 \in DOMAIN instances

\* C10: the counter that every x-counter connect increments equals the
\* number of entries into a document of the instances the x-counter make
\* produced.
C10_CounterCountsAttaches ==
    counter = CounterAttaches(Len(elems))

\* C11: an instance made by the blink make has exactly one running interval
\* timer while it is in a document, and none while it is not.
C11_OneTimerWhileAttached ==
    \A e \in DOMAIN instances :
        elems[e].maker \in BlinkCreates =>
            timers[e].active = (IF attached[e] THEN 1 ELSE 0)

\* C12: with one tag defined twice with different create functions, every
\* make runs the create its own ui call was given and the instance gets the
\* handle that create returned; customElements.define was called once, and
\* the one class calls connect (disconnect) of that handle when an instance
\* of either make enters (leaves) a document.
C12_EachMakeOwnCreate ==
    [][/\ \A i \in DOMAIN stack' :
            stack'[i].create = elems'[stack'[i].element].maker
       /\ \A e \in DOMAIN instances' :
            instances'[e].type = "object" =>
                /\ instances'[e].owner = elems'[e].maker
                /\ instances'[e].id = e
       /\ \A t \in Tags : defined'[t] <= 1
       /\ \A e \in DOMAIN instances :
            defined[elems[e].tag] = 1 =>
                /\ (AttachStep(e) /\ IsFunction(instances[e].connect)) =>
                        counts'[e].con = counts[e].con + 1
                /\ (DetachStep(e) /\ IsFunction(instances[e].disconnect)) =>
                        counts'[e].dis = counts[e].dis + 1]_vars

\* Two makes of one tag with different create functions have each made an
\* instance, each instance holds the handle of its own create, and connect
\* of each has been called.
C12_Witness ==
    /\ Len(elems) = 2
    /\ elems[1].tag = elems[2].tag
    /\ elems[1].maker # elems[2].maker
    /\ \A e \in {1, 2} :
            /\ e \in DOMAIN instances
            /\ instances[e].owner = elems[e].maker
            /\ counts[e].con >= 1

\* C13: when connect (disconnect) of the handle of an instance throws, the
\* error leaves the callback, the function was called once and not again,
\* and the WeakMap and customElements are as they were; this is so at every
\* entry and exit, whatever was thrown at earlier ones.
C13_ErrorPropagates ==
    [][\A e \in DOMAIN instances :
            ClassOf(e) = "ui" =>
               /\ (AttachStep(e) /\ instances[e].connect = "throws") =>
                    /\ last'.error = "Error"
                    /\ counts'[e].con = counts[e].con + 1
                    /\ instances' = instances
                    /\ registry' = registry
               /\ (DetachStep(e) /\ instances[e].disconnect = "throws") =>
                    /\ last'.error = "Error"
                    /\ counts'[e].dis = counts[e].dis + 1
                    /\ instances' = instances
                    /\ registry' = registry]_vars

\* An instance whose connect and disconnect throw has entered a document
\* twice and left it once; connect threw at the second entry as well.
C13_Witness ==
    \E e \in DOMAIN instances :
        /\ instances[e].connect = "throws"
        /\ counts[e].con = 2
        /\ counts[e].dis = 1
        /\ last.op = "attach"
        /\ last.error = "Error"

C15_ConnectDisconnectAlternate ==
    \A e \in DOMAIN instances :
        (/\ elems[e].maker # "outside"
         /\ IsFunction(instances[e].connect)
         /\ IsFunction(instances[e].disconnect)) =>
            /\ counts[e].dis <= counts[e].con
            /\ counts[e].con <= counts[e].dis + 1

\* C16: a step that takes an element into or out of a document leaves
\* customElements and the WeakMap as they were; the WeakMap changes only when
\* a make_element call returns, which adds one entry, for the element it
\* returns, and leaves every other entry as it was; a tag gets the class of
\* this library only in a call of ui.
C16_CallbacksOnlyRead ==
    [][/\ (\E e \in 1..Len(elems) : AttachStep(e) \/ DetachStep(e)) =>
            /\ registry' = registry
            /\ instances' = instances
       /\ (Len(stack') < Len(stack) /\ last'.error = "none") =>
            /\ last'.op = "return"
            /\ last'.made \notin DOMAIN instances
            /\ DOMAIN instances' = DOMAIN instances \cup {last'.made}
       /\ instances' # instances =>
            /\ Len(stack') < Len(stack)
            /\ last'.error = "none"
       /\ \A e \in DOMAIN instances :
            e \in DOMAIN instances' /\ instances'[e] = instances[e]
       /\ \A t \in Tags :
            (registry'[t] = "ui" /\ registry[t] # "ui") =>
                /\ last'.op = "ui"
                /\ registry[t] = "none"]_vars

\* Two instances have their entries and one of them, whose connect was
\* called, has just left a document.
C16_Witness ==
    /\ Cardinality(DOMAIN instances) = 2
    /\ last.op = "detach"
    /\ \E e \in DOMAIN instances : counts[e].con >= 1 /\ counts[e].dis >= 1

\* C17: when create, running inside make_element, itself calls make_element
\* or ui, every instance, outer and nested, gets the value that the create
\* call made for it returned, and create is called once for each instance.
C17_ReentrantMakeSafe ==
    \A e \in 1..Len(elems) :
        elems[e].maker # "outside" =>
            /\ counts[e].init = 1
            /\ Cardinality({i \in DOMAIN stack : stack[i].element = e}) <= 1
            /\ e \in DOMAIN instances =>
                /\ ~InProgress(e)
                /\ instances[e].type = "object" =>
                    /\ instances[e].id = e
                    /\ instances[e].owner = elems[e].maker

\* The outer make_element has returned element 1 after the make_element
\* that its create called returned element 2: both have their own handle.
C17_Witness ==
    /\ stack = << >>
    /\ last.op = "return"
    /\ last.made = 1
    /\ {1, 2} \subseteq DOMAIN instances
    /\ elems[2].maker # "outside"
    /\ \A e \in {1, 2} : instances[e].type = "object"

=============================================================================
